---- MODULE Spec2Model ----
(***************************************************************************)
(* Model of find_sds: the batch downloader (find_sds / download_sds in     *)
(* src/find_sds/find_sds.py), the REST wrapper's source search             *)
(* (search_sds_sources_all and the /search endpoints in src/app.py) and    *)
(* the source adapters (find_sds.py and src/find_sds/enhanced_search.py).  *)
(*                                                                         *)
(* Identifiers are sequences of characters, so that the file-name          *)
(* derivations (string concatenation, str.replace) are computed.           *)
(* External catalogs and the document server are the environment: what an  *)
(* adapter returns and what a GET answers are drawn nondeterministically.  *)
(***************************************************************************)
EXTENDS Integers, Sequences, FiniteSets, TLC

(***************************************************************************)
(* Bounds of the model.                                                    *)
(***************************************************************************)
\* largest pool_size passed to find_sds
MaxPool == 2
\* number of times one caller ensures that the download directory exists
MaxEnsures == 2
\* number of consecutive find_sds runs on the same download_path
MaxRuns == 2
\* number of REST requests served
MaxRequests == 1
\* number of find_sds calls followed to their end under fair scheduling
MaxLiveRuns == 1

(***************************************************************************)
(* Values.                                                                 *)
(***************************************************************************)
\* Python's None, as the value of a string-valued field
None == "None"
\* Python's None, as a whole return value
NoneValue == [ kind |-> "None" ]
\* an exception raised by the callee instead of a return value
Raise == [ kind |-> "Raise" ]
\* a (source, url) tuple returned by an adapter
Tuple(source, url) == [ kind |-> "tuple", source |-> source, url |-> url ]
\* a (cas_nr, downloaded, sds_source) triple returned by download_sds
Triple(cas_nr, downloaded, sds_source) ==
  [ kind |-> "triple", cas |-> cas_nr, downloaded |-> downloaded,
    source |-> sds_source ]
\* marker: download_sds has not been called / has not returned yet
NotCalled == [ kind |-> "NotCalled" ]
\* marker: no snapshot of a file taken yet
NoSnapshot == "NoSnapshot"
\* marker: no file at a path
Absent == "Absent"
\* content of a file whose write failed partway
Partial == "Partial"

\* a run of 300 characters, written as one element of an identifier
LongRun == "x*300"

\* an identifier longer than a file name may be
LongId == << LongRun >>

\* CAS numbers handed to find_sds (passed through as-is, any string)
CasIds == { <<"1">>, <<"2">>, <<"3">>, LongId }

\* the cas_list arguments tried: single, repeated entries, two and three
\* ids, and a list with an over-long identifier
CasLists ==
  { << <<"1">> >>,
    << <<"1">>, <<"1">> >>,
    << <<"1">>, <<"2">> >>,
    << <<"1">>, LongId >>,
    << <<"1">>, <<"2">>, <<"3">> >> }

\* document bodies the document server may send
Contents == { "pdfA", "pdfB" }

\* the six CAS adapters in the order of the or-chain of download_sds
CasChain ==
  << "ChemBlink", "VWR", "Fisher", "TCI", "ChemicalSafety", "Fluorochem" >>

NumAdapters == Len(CasChain)

\* what one adapter call can do: return None, return a (source, url) tuple
\* (every return statement of the adapters yields a non-empty url), or raise
AnswerKinds == { "None", "Raise", "tuple" }

\* the document URL a catalog answers with
UrlOf ==
  [ ChemBlink |-> "url_chemblink", VWR |-> "url_vwr", Fisher |-> "url_fisher",
    TCI |-> "url_tci", ChemicalSafety |-> "url_chemicalsafety",
    Fluorochem |-> "url_fluorochem" ]

\* the source label a catalog answers with
SourceOf ==
  [ ChemBlink |-> "Matrix", VWR |-> "Avantor", Fisher |-> "Fisher",
    TCI |-> "TCI", ChemicalSafety |-> "Alfa Aesar",
    Fluorochem |-> "Fluorochem" ]

\* the value of one adapter call, or Raise
adapter_return(database, kind) ==
  CASE kind = "tuple" -> Tuple(SourceOf[database], UrlOf[database])
    [] kind = "Raise" -> Raise
    [] OTHER -> NoneValue

\* what requests.get(full_url) can do: raise, or answer with a status code,
\* a redirect history and a body
FetchResponses ==
  [ kind : { "response" }, status : {200, 404}, history : {0, 1},
    content : Contents ]

\* requests.get either raises or answers
GetOutcomes == { Raise } \cup FetchResponses

\* how open(download_file, 'wb').write(r.content) can end
WriteOutcomes == { "ok", "open_fails", "write_fails" }

Range(s) == { s[i] : i \in DOMAIN s }

\* file_name = cas_nr + '-SDS.pdf'
file_name(cas_nr) == cas_nr \o << "-SDS.pdf" >>

\* product names handed to the product-name endpoints
ProductNames == { << "a", " ", "b" >>, << "a", "/", "b" >>, << "1" >> }

\* str.replace(old, new) on a sequence of characters
replace(str, old, new) ==
  [ k \in DOMAIN str |-> IF str[k] = old THEN new ELSE str[k] ]

\* file_name = f"{product_name.replace(' ', '_').replace('/', '_')}-SDS.pdf"
product_file_name(product_name) ==
  replace(replace(product_name, " ", "_"), "/", "_") \o << "-SDS.pdf" >>

Paths ==
  { file_name(c) : c \in CasIds } \cup
  { product_file_name(n) : n \in ProductNames }

\* variant: only a completely written file counts as present
exists_only_complete(fsys, path) == fsys[path] \notin { Absent, Partial }

\* download_file.exists()
exists(fsys, path) == fsys[path] # Absent

\* download_file.exists() raises OSError (ENAMETOOLONG) instead of answering:
\* Path.exists() only turns ENOENT, ENOTDIR, EBADF and ELOOP into False
name_too_long(path) == LongRun \in Range(path)

VARIABLES
  fs,               \* files of download_path: path -> content, Partial or Absent
  pc,               \* position of find_sds: "idle", "running", "done", "exited"
  runs,             \* number of find_sds calls started
  cas_list,         \* argument of the current find_sds call
  pool_size,        \* argument of the current find_sds call
  branch,           \* "pool" (Pool.map) or "sequential" (debug / not __main__)
  to_be_downloaded, \* set(cas_list) not yet handed to download_sds
  workers,          \* per worker: the download_sds execution in progress
  download_result,  \* per identifier: what download_sds returned
  missing_sds,      \* summary of the last finished run
  updated_sds,      \* summary of the last finished run
  atCall,           \* history: the file at the identifier's path on entry
  probed,           \* history: some adapter was invoked for the identifier
  fetches,          \* history: number of GETs of a document per identifier
  invocations,      \* history: number of download_sds calls per identifier
  last_response,    \* history: what the last GET of a document answered
  escaped,          \* an exception left download_sds in the current run
  prev_updated,     \* history: updated_sds of the previous run
  fs_at_start,      \* history: fs when the current run began
  api,              \* the REST request being served and its position
  probe,            \* what the last search_sds_sources_all call did
  entry,            \* the result entry just built, before results.append
  requests,         \* number of REST requests received
  lookup,           \* one adapter call: the catalog's replies and the result
  ensure            \* the download directory and the calls that ensure it

vars ==
  << fs, pc, runs, cas_list, pool_size, branch, to_be_downloaded, workers,
     download_result, missing_sds, updated_sds, atCall, probed, fetches,
     invocations, last_response, escaped, prev_updated, fs_at_start, api,
     probe, entry, requests, lookup, ensure >>

\* the state of the REST wrapper
apiVars == << api, probe, entry, requests >>

\* the state of find_sds outside download_sds
batchVars ==
  << pc, runs, cas_list, pool_size, branch, to_be_downloaded, missing_sds,
     updated_sds, prev_updated, fs_at_start >>

Workers == 1 .. MaxPool

\* a worker record: st is the position inside download_sds, idx the operand
\* of the or-chain reached, calls the adapters invoked so far in this
\* execution and answers what each of them did
Idle == [ st |-> "idle" ]

\* variant: the pool ignores pool_size
ActiveWorkers_unbounded == IF branch = "pool" THEN Workers ELSE { 1 }

\* variant: no process takes the identifiers up
ActiveWorkers_none == {}

\* workers that exist in the current run: the pool's processes, or the caller
ActiveWorkers ==
  IF branch = "pool" THEN 1 .. pool_size ELSE { 1 }

\* download_sds executions in progress
InProgress == { w \in Workers : workers[w].st # "idle" }

\* no request is being served
ApiIdle == [ st |-> "idle" ]
\* search_sds_sources_all has not been called for the current item
NoProbe == [ kind |-> "NoProbe" ]
\* no result entry is waiting to be appended
NoEntry == [ kind |-> "NoEntry" ]
\* no adapter call is being looked at
NoLookup == [ st |-> "none" ]
\* no GET of a document has been issued
NoResponse == [ kind |-> "NoResponse" ]

\* the processes or calls that may ensure the same download directory
Callers == 1 .. 2
\* a caller that is not inside mkdir; n counts its finished calls
Outside(n) == [ st |-> "outside", n |-> n ]

\* what is kept of the outcome of a GET: the exception, or the status code
\* and the redirect history of the response
seen(get) ==
  IF get.kind = "response"
  THEN [ kind |-> "response", status |-> get.status,
         history |-> get.history ]
  ELSE get

Init ==
  /\ fs = [ p \in Paths |-> Absent ]
  /\ pc = "idle"
  /\ runs = 0
  /\ cas_list = << >>
  /\ pool_size = 1
  /\ branch = "sequential"
  /\ to_be_downloaded = {}
  /\ workers = [ w \in Workers |-> Idle ]
  /\ download_result = [ c \in CasIds |-> NotCalled ]
  /\ missing_sds = {}
  /\ updated_sds = {}
  /\ atCall = [ c \in CasIds |-> NoSnapshot ]
  /\ probed = [ c \in CasIds |-> FALSE ]
  /\ fetches = [ c \in CasIds |-> 0 ]
  /\ invocations = [ c \in CasIds |-> 0 ]
  /\ last_response = NoResponse
  /\ escaped = FALSE
  /\ prev_updated = {}
  /\ fs_at_start = fs
  /\ api = ApiIdle
  /\ probe = NoProbe
  /\ entry = NoEntry
  /\ requests = 0
  /\ lookup = NoLookup
  /\ ensure = [ dir |-> FALSE, callers |-> [ c \in Callers |-> Outside(0) ] ]

(***************************************************************************)
(* find_sds, up to the dispatch of the downloads.                          *)
(***************************************************************************)
find_sds_begin(list, size, br) ==
  /\ pc \in { "idle", "done" }
  /\ runs < MaxRuns
  /\ list # << >>
  \* a second run repeats the first run's arguments
  /\ runs > 0 => list = cas_list /\ size = pool_size /\ br = branch
  /\ runs' = runs + 1
  /\ cas_list' = list
  /\ pool_size' = size
  /\ branch' = br
  /\ to_be_downloaded' = Range(list)
  /\ download_result' = [ c \in CasIds |-> NotCalled ]
  /\ atCall' = [ c \in CasIds |-> NoSnapshot ]
  /\ probed' = [ c \in CasIds |-> FALSE ]
  /\ fetches' = [ c \in CasIds |-> 0 ]
  /\ invocations' = [ c \in CasIds |-> 0 ]
  /\ last_response' = NoResponse
  /\ escaped' = FALSE
  /\ prev_updated' = updated_sds
  /\ fs_at_start' = fs
  \* the summary sets are locals of the call
  /\ missing_sds' = {}
  /\ updated_sds' = {}
  /\ pc' = "running"
  /\ UNCHANGED << fs, workers >>
  /\ UNCHANGED apiVars
  /\ UNCHANGED << lookup, ensure >>

\* if not cas_list: print('List of CAS numbers is empty!'); exit(0)
\* exit raises SystemExit, which leaves find_sds before the try block
find_sds_exit(list) ==
  /\ list = << >>
  /\ runs' = runs + 1
  /\ cas_list' = list
  /\ pc' = "exited"

\* find_sds is called with an empty list
find_sds_empty(list) ==
  /\ pc = "idle"
  /\ runs < MaxRuns
  /\ find_sds_exit(list)
  /\ UNCHANGED << fs, pool_size, branch, to_be_downloaded, workers,
                  download_result, missing_sds, updated_sds, atCall, probed,
                  fetches, invocations, last_response, escaped, prev_updated,
                  fs_at_start >>
  /\ UNCHANGED apiVars
  /\ UNCHANGED << lookup, ensure >>

\* download_sds returns: the worker is free and the result is collected
return(w, value) ==
  /\ download_result' = [ download_result EXCEPT ![workers[w].cas] = value ]
  /\ workers' = [ workers EXCEPT ![w] = Idle ]

(***************************************************************************)
(* download_sds: entry.                                                    *)
(***************************************************************************)
download_sds_enter(w, cas_nr) ==
  /\ pc = "running"
  /\ w \in ActiveWorkers
  /\ workers[w].st = "idle"
  /\ cas_nr \in to_be_downloaded
  /\ to_be_downloaded' = to_be_downloaded \ { cas_nr }
  /\ workers' = [ workers EXCEPT ![w] =
                    [ st |-> "exists", cas |-> cas_nr, idx |-> 0,
                      calls |-> << >>, answers |-> << >>,
                      sds_source |-> None, full_url |-> None ] ]
  /\ atCall' = [ atCall EXCEPT ![cas_nr] = fs[file_name(cas_nr)] ]
  /\ invocations' = [ invocations EXCEPT ![cas_nr] = @ + 1 ]
  /\ UNCHANGED << fs, pc, runs, cas_list, pool_size, branch, download_result,
                  missing_sds, updated_sds, probed, fetches, last_response,
                  escaped, prev_updated, fs_at_start >>
  /\ UNCHANGED apiVars
  /\ UNCHANGED << lookup, ensure >>

(***************************************************************************)
(* download_sds: if download_file.exists(): return cas_nr, True, None      *)
(* The test stands before the try block.  When it raises, the exception    *)
(* leaves download_sds: in the sequential branch it leaves the for loop of *)
(* find_sds too, so the identifiers not yet reached are never processed;   *)
(* in the pool branch the other tasks run on and Pool.map raises once they *)
(* are done.                                                               *)
(***************************************************************************)
download_sds_exists(w) ==
  /\ workers[w].st = "exists"
  /\ LET cas_nr == workers[w].cas IN
       CASE name_too_long(file_name(cas_nr)) ->
              /\ workers' = [ workers EXCEPT ![w] = Idle ]
              /\ escaped' = TRUE
              /\ to_be_downloaded' =
                   IF branch = "pool" THEN to_be_downloaded ELSE {}
              /\ UNCHANGED download_result
         [] ~ name_too_long(file_name(cas_nr))
              /\ exists(fs, file_name(cas_nr)) ->
              /\ return(w, Triple(cas_nr, TRUE, None))
              /\ UNCHANGED << escaped, to_be_downloaded >>
         [] OTHER ->
              /\ workers' = [ workers EXCEPT ![w].st = "chain", ![w].idx = 1 ]
              /\ UNCHANGED << download_result, escaped, to_be_downloaded >>
  /\ UNCHANGED << fs, atCall, probed, fetches, invocations, last_response >>
  /\ UNCHANGED << pc, runs, cas_list, pool_size, branch, missing_sds,
                  updated_sds, prev_updated, fs_at_start >>
  /\ UNCHANGED apiVars
  /\ UNCHANGED << lookup, ensure >>

(***************************************************************************)
(* download_sds: one operand of the or-chain                               *)
(*   extract_download_url_from_chemblink(cas_nr) or ... or (None, None)    *)
(* The adapter at position idx is called.  A tuple is truthy and ends the  *)
(* chain, None moves on to the next operand, an exception leaves the try   *)
(* block.  After the last operand the chain yields (None, None), full_url  *)
(* is falsy and the else branch returns (cas_nr, False, None).             *)
(***************************************************************************)
\* variant: no operand ends the or-chain
truthy_never(result) == FALSE

\* Python truth value of what an adapter returned: a tuple is truthy
truthy(result) == result.kind = "tuple"

download_sds_adapter(w) ==
  /\ workers[w].st = "chain"
  /\ LET cas_nr == workers[w].cas
         i == workers[w].idx
     IN
       /\ probed' = [ probed EXCEPT ![cas_nr] = TRUE ]
       /\ \E kind \in AnswerKinds :
          LET result == adapter_return(CasChain[i], kind) IN
            CASE result = Raise ->
                   \* except Exception: return (cas_nr, downloaded, None)
                   return(w, Triple(cas_nr, FALSE, None))
              [] result # Raise /\ ~ truthy(result) /\ i < NumAdapters ->
                   /\ workers' = [ workers EXCEPT
                                     ![w].idx = i + 1,
                                     ![w].calls = Append(@, CasChain[i]),
                                     ![w].answers = Append(@, result.kind) ]
                   /\ UNCHANGED download_result
              [] result # Raise /\ ~ truthy(result) /\ i = NumAdapters ->
                   \* sds_source, full_url = (None, None); else branch
                   return(w, Triple(cas_nr, FALSE, None))
              [] OTHER ->
                   \* sds_source, full_url = result; if full_url:
                   /\ workers' = [ workers EXCEPT
                                     ![w].st = "get",
                                     ![w].calls = Append(@, CasChain[i]),
                                     ![w].answers = Append(@, result.kind),
                                     ![w].sds_source = result.source,
                                     ![w].full_url = result.url ]
                   /\ UNCHANGED download_result
  /\ UNCHANGED << fs, atCall, fetches, invocations, last_response, escaped >>
  /\ UNCHANGED batchVars
  /\ UNCHANGED apiVars
  /\ UNCHANGED << lookup, ensure >>

(***************************************************************************)
(* download_sds: r = requests.get(full_url, ...) and the write.            *)
(*   status 200 and empty history: open(download_file, 'wb').write(...)    *)
(*     and return (cas_nr, True, sds_source); an exception of open or      *)
(*     write is caught and returns (cas_nr, False, None);                  *)
(*   any other response: the if has no else and no return follows, the     *)
(*     function ends and returns None;                                     *)
(*   requests.get raises: return (cas_nr, False, None).                    *)
(***************************************************************************)
download_sds_get(w) ==
  /\ workers[w].st = "get"
  /\ LET cas_nr == workers[w].cas
         download_file == file_name(cas_nr)
     IN
       /\ fetches' = [ fetches EXCEPT ![cas_nr] = @ + 1 ]
       /\ \/ \* requests.get raises (timeout, connection error)
             /\ return(w, Triple(cas_nr, FALSE, None))
             /\ last_response' = Raise
             /\ UNCHANGED fs
          \/ \E r \in FetchResponses :
               /\ last_response' = seen(r)
               /\ IF r.status = 200 /\ r.history = 0
                  THEN \E wr \in WriteOutcomes :
                         CASE wr = "ok" ->
                                /\ fs' = [ fs EXCEPT ![download_file] = r.content ]
                                /\ return(w, Triple(cas_nr, TRUE, workers[w].sds_source))
                           [] wr = "write_fails" ->
                                \* open truncated or created the file
                                /\ fs' = [ fs EXCEPT ![download_file] = Partial ]
                                /\ return(w, Triple(cas_nr, FALSE, None))
                           [] OTHER ->
                                /\ UNCHANGED fs
                                /\ return(w, Triple(cas_nr, FALSE, None))
                  ELSE /\ return(w, NoneValue)
                       /\ UNCHANGED fs
  /\ UNCHANGED << atCall, probed, invocations, escaped >>
  /\ UNCHANGED batchVars
  /\ UNCHANGED apiVars
  /\ UNCHANGED << lookup, ensure >>

(***************************************************************************)
(* find_sds: the finally block.                                            *)
(*   download_result = [x for x in download_result if x]                   *)
(*   then each triple goes to updated_sds or to missing_sds.               *)
(***************************************************************************)
\* the results that survive the filter: a triple is truthy, None is not.
\* When Pool.map raised, download_result was never assigned and is still []
truthy_results ==
  IF branch = "pool" /\ escaped
  THEN {}
  ELSE { download_result[c] : c \in { d \in CasIds :
           download_result[d].kind = "triple" } }

find_sds_summary ==
  /\ pc = "running"
  /\ to_be_downloaded = {}
  /\ InProgress = {}
  /\ updated_sds' = { x.cas : x \in { y \in truthy_results : y.downloaded } }
  /\ missing_sds' =
       { x.cas : x \in { y \in truthy_results : ~ y.downloaded } }
  /\ pc' = "done"
  /\ UNCHANGED << fs, runs, cas_list, pool_size, branch, to_be_downloaded,
                  workers, download_result, atCall, probed, fetches,
                  invocations, last_response, escaped, prev_updated,
                  fs_at_start >>
  /\ UNCHANGED apiVars
  /\ UNCHANGED << lookup, ensure >>

(***************************************************************************)
(* app.py: search_sds_sources_all.                                         *)
(***************************************************************************)
\* the registry selected by search_type, as the database names in order;
\* any other search_type returns [] before the loop
sources(search_type) ==
  CASE search_type = "cas" ->
         << "ChemBlink", "VWR", "Fisher", "TCI", "ChemicalSafety",
            "Fluorochem" >>
    [] search_type = "product" ->
         << "ChemicalSafety", "VWR", "Fisher", "TCI", "ChemBlink",
            "Fluorochem" >>
    [] OTHER -> << >>

\* variant: an exception of an adapter is recorded like an empty answer
outcome_swallow(source_name, result) ==
  IF result.kind = "tuple"
  THEN [ source |-> result.source, database |-> source_name,
         url |-> result.url, status |-> "success" ]
  ELSE [ source |-> None, database |-> source_name, url |-> None,
         status |-> "not_found" ]

\* variant: the except clause records the status without the detail
outcome_without_detail(source_name, result) ==
  CASE result.kind = "Raise" ->
         [ source |-> None, database |-> source_name, url |-> None,
           status |-> "error" ]
    [] result.kind = "tuple" ->
         [ source |-> result.source, database |-> source_name,
           url |-> result.url, status |-> "success" ]
    [] OTHER ->
         [ source |-> None, database |-> source_name, url |-> None,
           status |-> "not_found" ]

\* the body of the loop: the dictionary appended for one adapter
outcome(source_name, result) ==
  CASE result.kind = "Raise" ->
         [ source |-> None, database |-> source_name, url |-> None,
           status |-> "error", error |-> "str(e)" ]
    [] result.kind # "Raise" /\ truthy(result) ->
         [ source |-> result.source, database |-> source_name,
           url |-> result.url, status |-> "success" ]
    [] OTHER ->
         [ source |-> None, database |-> source_name, url |-> None,
           status |-> "not_found" ]

\* for source_name, source_func in sources: ... results.append(...)
\* acc.calls lists the adapters invoked so far
RECURSIVE search_loop(_, _, _, _)
search_loop(srcs, answers, k, acc) ==
  IF k > Len(srcs)
  THEN acc
  ELSE search_loop(srcs, answers, k + 1,
         [ results |-> Append(acc.results,
                         outcome(srcs[k], adapter_return(srcs[k], answers[k]))),
           calls |-> Append(acc.calls, srcs[k]) ])

\* variant: the loop ends at the first success
RECURSIVE search_loop_short(_, _, _, _)
search_loop_short(srcs, answers, k, acc) ==
  IF k > Len(srcs) \/ (k > 1 /\ acc.results[k - 1].status = "success")
  THEN acc
  ELSE search_loop_short(srcs, answers, k + 1,
         [ results |-> Append(acc.results,
                         outcome(srcs[k], adapter_return(srcs[k], answers[k]))),
           calls |-> Append(acc.calls, srcs[k]) ])

search_sds_sources_all_short(query, search_type, answers) ==
  search_loop_short(sources(search_type), answers, 1,
                    [ results |-> << >>, calls |-> << >> ])

\* search_sds_sources_all(query, search_type); answers is what each adapter
\* of the registry does when called with query
search_sds_sources_all(query, search_type, answers) ==
  search_loop(sources(search_type), answers, 1,
              [ results |-> << >>, calls |-> << >> ])

\* variant: every outcome that is not an error counts as successful
successful_sources_not_error(all_sources) ==
  SelectSeq(all_sources, LAMBDA x : x.status # "error")

\* successful_sources = [s for s in all_sources if s["status"] == "success"]
successful_sources(all_sources) ==
  SelectSeq(all_sources, LAMBDA x : x.status = "success")

\* the fields every endpoint derives from all_sources
entry_fields(all_sources) ==
  LET successful == successful_sources(all_sources) IN
    [ found |-> Len(successful) > 0,
      sources |-> successful,
      all_sources |-> all_sources,
      primary_source |->
        IF successful # << >> THEN successful[1].source ELSE None,
      primary_url |->
        IF successful # << >> THEN successful[1].url ELSE None ]

\* str(bool)
py_bool(b) == IF b THEN "True" ELSE "False"

\* the value None where a path is expected
NonePath == << None >>

(***************************************************************************)
(* app.py: the product-name download of search_by_product / search_mixed.  *)
(*   r = requests.get(primary_source["url"], ...)                          *)
(*   if r.status_code == 200: open(file_path, 'wb') ... downloaded = True  *)
(*   else: downloaded = False;  except: downloaded = False                 *)
(***************************************************************************)
product_download(fsys, file_path, get, wr) ==
  IF get.kind = "Raise"
  THEN [ fs |-> fsys, downloaded |-> FALSE ]
  ELSE IF get.status = 200
       THEN CASE wr = "ok" ->
                   [ fs |-> [ fsys EXCEPT ![file_path] = get.content ],
                     downloaded |-> TRUE ]
              [] wr = "write_fails" ->
                   [ fs |-> [ fsys EXCEPT ![file_path] = Partial ],
                     downloaded |-> FALSE ]
              [] OTHER -> [ fs |-> fsys, downloaded |-> FALSE ]
       ELSE [ fs |-> fsys, downloaded |-> FALSE ]

\* variant: the file is fetched whether or not download was requested
product_item_always_fetches(fsys, product_name, download, answers, get, wr) ==
  LET all_sources ==
        search_sds_sources_all(product_name, "product", answers).results
      fields == entry_fields(all_sources)
      file_path == product_file_name(product_name)
      fetched == IF fields.found
                 THEN product_download(fsys, file_path, get, wr)
                 ELSE [ fs |-> fsys, downloaded |-> FALSE ]
  IN
    [ fs |-> fetched.fs,
      mkdir |-> fields.found,
      fetched_url |-> IF fields.found THEN fields.primary_url ELSE None,
      entry |->
        [ downloaded |-> IF download THEN py_bool(fetched.downloaded)
                         ELSE None,
          download_url |-> IF fetched.downloaded THEN file_path
                           ELSE NonePath ] @@ fields ]

\* one iteration of "for product_name in product_names":
\* the entry built and the files afterwards
product_item(fsys, product_name, download, answers, get, wr) ==
  LET all_sources ==
        search_sds_sources_all(product_name, "product", answers).results
      fields == entry_fields(all_sources)
      file_path == product_file_name(product_name)
      fetched == IF fields.found /\ download
                 THEN product_download(fsys, file_path, get, wr)
                 ELSE [ fs |-> fsys, downloaded |-> FALSE ]
  IN
    [ fs |-> fetched.fs,
      mkdir |-> fields.found /\ download,
      fetched_url |-> IF fields.found /\ download
                      THEN fields.primary_url ELSE None,
      entry |->
        [ downloaded |-> IF download THEN py_bool(fetched.downloaded)
                         ELSE None,
          download_url |-> IF fetched.downloaded THEN file_path
                           ELSE NonePath ] @@ fields ]

\* the requests sent to the endpoints
ApiCasLists == { << >>, << <<"1">> >>, << <<"1">>, <<"1">> >> }

ApiProductLists ==
  { << >>,
    << << "a", " ", "b" >> >>,
    << << "a", " ", "b" >>, << "a", "/", "b" >> >>,
    << << "1" >> >> }

\* the keys a JSON request body may hold
AllKeys == { "cas_numbers", "product_names", "download" }

\* keys is the set of keys of the JSON body; a key that is absent has no
\* value (written here as the empty list, or FALSE).  A body that holds an
\* identifier key holds all three keys.  /search/cas with download = true
\* hands its list to find_sds: it is sent the empty list here, the run of
\* find_sds on a non-empty list is the one of Spec.
ApiRequests ==
  { r \in [ endpoint : { "cas", "product", "mixed" },
            keys : SUBSET AllKeys,
            cas_numbers : ApiCasLists,
            product_names : ApiProductLists,
            download : BOOLEAN ] :
      /\ "cas_numbers" \notin r.keys => r.cas_numbers = << >>
      /\ "product_names" \notin r.keys => r.product_names = << >>
      /\ "download" \notin r.keys => ~ r.download
      /\ r.keys \cap { "cas_numbers", "product_names" } # {}
           => r.keys = AllKeys
      /\ r.endpoint = "cas" =>
           /\ r.product_names = << >>
           /\ (r.download /\ "cas_numbers" \in r.keys)
                => r.cas_numbers = << >>
      /\ r.endpoint = "product" => r.cas_numbers = << >>
      /\ r.endpoint = "mixed" =>
           /\ Len(r.cas_numbers) <= 1
           /\ r.product_names \in { << >>, << << "1" >> >> } }

\* variant: only an empty body is rejected
error_empty_body_only(r) ==
  IF r.keys = {} THEN "Request body is required" ELSE None

\* the validation at the head of the three handlers: the error message of
\* the 400 response, or None when the request is accepted
\*   if not data or 'cas_numbers' not in data
\*   if not data or 'product_names' not in data
\*   if not data;  if not cas_numbers and not product_names
error(r) ==
  CASE r.endpoint = "cas" /\ (r.keys = {} \/ "cas_numbers" \notin r.keys) ->
         "cas_numbers parameter is required"
    [] r.endpoint = "product"
         /\ (r.keys = {} \/ "product_names" \notin r.keys) ->
         "product_names parameter is required"
    [] r.endpoint = "mixed" /\ r.keys = {} -> "Request body is required"
    [] r.endpoint = "mixed" /\ r.keys # {}
         /\ r.cas_numbers = << >> /\ r.product_names = << >> ->
         "Either cas_numbers or product_names must be provided"
    [] OTHER -> None

\* the adapters' answers to one query, by position in the registry
Answers == [ 1 .. NumAdapters -> AnswerKinds ]

\* the record kept of one search_sds_sources_all call
probe_record(query, search_type, answers) ==
  LET r == search_sds_sources_all(query, search_type, answers) IN
    [ kind |-> "probe", query |-> query, search_type |-> search_type,
      answers |-> answers, results |-> r.results, calls |-> r.calls ]

(***************************************************************************)
(* A request arrives: request_id = uuid4(), download_path = TEMP_DIR /     *)
(* request_id is a directory that does not exist yet.                      *)
(***************************************************************************)
api_begin(r) ==
  /\ api.st \in { "idle", "responded" }
  /\ pc = "idle"
  /\ requests < MaxRequests
  /\ requests' = requests + 1
  /\ fs' = [ p \in Paths |-> Absent ]
  /\ probe' = NoProbe
  /\ entry' = NoEntry
  /\ api' =
       [ st |-> IF error(r) # None THEN "responded" ELSE "loop",
         status |-> IF error(r) # None THEN 400 ELSE 0,
         error |-> error(r),
         endpoint |-> r.endpoint, keys |-> r.keys,
         download |-> r.download, cas_numbers |-> r.cas_numbers,
         product_names |-> r.product_names, i |-> 0, j |-> 0,
         results_len |-> 0, found_count |-> 0, dir_made |-> FALSE ]
  /\ download_result' = [ c \in CasIds |-> NotCalled ]
  /\ atCall' = [ c \in CasIds |-> NoSnapshot ]
  /\ probed' = [ c \in CasIds |-> FALSE ]
  /\ fetches' = [ c \in CasIds |-> 0 ]
  /\ invocations' = [ c \in CasIds |-> 0 ]
  /\ last_response' = NoResponse
  /\ escaped' = FALSE
  /\ UNCHANGED workers
  /\ UNCHANGED batchVars
  /\ UNCHANGED << lookup, ensure >>

(***************************************************************************)
(* search_by_cas, download = false: one iteration of the loop.             *)
(***************************************************************************)
search_by_cas_item ==
  /\ api.st = "loop"
  /\ api.endpoint = "cas"
  /\ ~ api.download
  /\ api.i < Len(api.cas_numbers)
  /\ LET cas_nr == api.cas_numbers[api.i + 1] IN
       \E answers \in Answers :
         /\ probe' = probe_record(cas_nr, "cas", answers)
         /\ entry' = [ cas_number |-> cas_nr ] @@ entry_fields(probe'.results)
  /\ api' = [ api EXCEPT !.st = "built", !.i = @ + 1 ]
  /\ UNCHANGED << fs, workers, download_result, atCall, probed, fetches,
                  invocations, last_response, escaped, requests >>
  /\ UNCHANGED batchVars
  /\ UNCHANGED << lookup, ensure >>

(***************************************************************************)
(* search_by_cas, download = true:                                         *)
(*   find_sds_by_cas(cas_list=cas_numbers, download_path=..., pool_size=5) *)
(* SystemExit is not an Exception: the handler's except clause does not    *)
(* catch it and the handler is left without a response.                    *)
(***************************************************************************)
search_by_cas_download ==
  /\ api.st = "loop"
  /\ api.endpoint = "cas"
  /\ api.download
  /\ find_sds_exit(api.cas_numbers)
  /\ api' = [ api EXCEPT !.st = "exited" ]
  /\ UNCHANGED << fs, pool_size, branch, to_be_downloaded, workers,
                  download_result, missing_sds, updated_sds, atCall, probed,
                  fetches, invocations, last_response, escaped, prev_updated,
                  fs_at_start, probe, entry, requests >>
  /\ UNCHANGED << lookup, ensure >>

(***************************************************************************)
(* search_by_product: one iteration of the loop.                           *)
(***************************************************************************)
search_by_product_item ==
  /\ api.st = "loop"
  /\ api.endpoint = "product"
  /\ api.j < Len(api.product_names)
  /\ LET product_name == api.product_names[api.j + 1] IN
       \E answers \in Answers, get \in GetOutcomes, wr \in WriteOutcomes :
         LET it == product_item(fs, product_name, api.download, answers,
                                get, wr)
         IN
           /\ probe' = probe_record(product_name, "product", answers)
           /\ entry' = [ product_name |-> product_name ] @@ it.entry
           /\ fs' = it.fs
           /\ last_response' = IF it.mkdir THEN seen(get) ELSE NoResponse
           /\ api' = [ api EXCEPT !.st = "built", !.j = @ + 1,
                                  !.dir_made = @ \/ it.mkdir ]
  /\ UNCHANGED << workers, download_result, atCall, probed, fetches,
                  invocations, escaped, requests >>
  /\ UNCHANGED batchVars
  /\ UNCHANGED << lookup, ensure >>

(***************************************************************************)
(* search_mixed: one iteration of "for cas_nr in cas_numbers", up to the   *)
(* call of download_sds or, without it, to the entry.                      *)
(***************************************************************************)
search_mixed_cas_probe ==
  /\ api.st = "loop"
  /\ api.endpoint = "mixed"
  /\ api.i < Len(api.cas_numbers)
  /\ LET cas_nr == api.cas_numbers[api.i + 1] IN
       \E answers \in Answers :
         /\ probe' = probe_record(cas_nr, "cas", answers)
         /\ IF successful_sources(probe'.results) # << >> /\ api.download
            THEN \* download_path.mkdir(exist_ok=True); download_sds(...)
                 /\ api' = [ api EXCEPT !.st = "downloading",
                                        !.dir_made = TRUE ]
                 /\ workers' = [ workers EXCEPT ![1] =
                      [ st |-> "exists", cas |-> cas_nr, idx |-> 0,
                        calls |-> << >>, answers |-> << >>,
                        sds_source |-> None, full_url |-> None ] ]
                 /\ download_result' =
                      [ download_result EXCEPT ![cas_nr] = NotCalled ]
                 /\ atCall' = [ atCall EXCEPT ![cas_nr] = fs[file_name(cas_nr)] ]
                 /\ probed' = [ probed EXCEPT ![cas_nr] = FALSE ]
                 /\ fetches' = [ fetches EXCEPT ![cas_nr] = 0 ]
                 /\ invocations' = [ invocations EXCEPT ![cas_nr] = @ + 1 ]
                 /\ UNCHANGED entry
            ELSE /\ api' = [ api EXCEPT !.st = "built", !.i = @ + 1 ]
                 /\ entry' =
                      [ type |-> "cas", identifier |-> cas_nr,
                        downloaded |-> IF api.download THEN py_bool(FALSE)
                                       ELSE None,
                        download_url |-> NonePath ]
                      @@ entry_fields(probe'.results)
                 /\ UNCHANGED << workers, download_result, atCall, probed,
                                 fetches, invocations >>
  /\ last_response' = NoResponse
  /\ UNCHANGED << fs, escaped, requests >>
  /\ UNCHANGED batchVars
  /\ UNCHANGED << lookup, ensure >>

(***************************************************************************)
(* search_mixed: download_sds has returned.                                *)
(*   downloaded = cas_result[1] raises TypeError when cas_result is None;  *)
(*   the handler's except turns it, or an exception that left download_sds,*)
(*   into a 500 response.                                                  *)
(***************************************************************************)
search_mixed_cas_return ==
  /\ api.st = "downloading"
  /\ workers[1].st = "idle"
  /\ LET cas_nr == api.cas_numbers[api.i + 1]
         cas_result == download_result[cas_nr]
     IN
       IF escaped \/ cas_result.kind = "None"
       THEN /\ api' = [ api EXCEPT !.st = "responded", !.status = 500 ]
            /\ entry' = NoEntry
            /\ probe' = NoProbe
       ELSE /\ api' = [ api EXCEPT !.st = "built", !.i = @ + 1 ]
            /\ entry' =
                 [ type |-> "cas", identifier |-> cas_nr,
                   downloaded |-> py_bool(cas_result.downloaded),
                   download_url |-> IF cas_result.downloaded
                                    THEN file_name(cas_nr) ELSE NonePath ]
                 @@ entry_fields(probe.results)
            /\ UNCHANGED probe
  /\ UNCHANGED << fs, workers, download_result, atCall, probed, fetches,
                  invocations, last_response, escaped, requests >>
  /\ UNCHANGED batchVars
  /\ UNCHANGED << lookup, ensure >>

(***************************************************************************)
(* search_mixed: one iteration of "for product_name in product_names".     *)
(***************************************************************************)
search_mixed_product_item ==
  /\ api.st = "loop"
  /\ api.endpoint = "mixed"
  /\ api.i = Len(api.cas_numbers)
  /\ api.j < Len(api.product_names)
  /\ LET product_name == api.product_names[api.j + 1] IN
       \E answers \in Answers, get \in GetOutcomes, wr \in WriteOutcomes :
         LET it == product_item(fs, product_name, api.download, answers,
                                get, wr)
         IN
           /\ probe' = probe_record(product_name, "product", answers)
           /\ entry' = [ type |-> "product", identifier |-> product_name ]
                       @@ it.entry
           /\ fs' = it.fs
           /\ last_response' = IF it.mkdir THEN seen(get) ELSE NoResponse
           /\ api' = [ api EXCEPT !.st = "built", !.j = @ + 1,
                                  !.dir_made = @ \/ it.mkdir ]
  /\ UNCHANGED << workers, download_result, atCall, probed, fetches,
                  invocations, escaped, requests >>
  /\ UNCHANGED batchVars
  /\ UNCHANGED << lookup, ensure >>

(***************************************************************************)
(* results.append(entry).  Of the list only its length and the number of   *)
(* entries with found = True (found_count of the response) are kept.       *)
(***************************************************************************)
append_result ==
  /\ api.st = "built"
  /\ api' = [ api EXCEPT !.st = "loop",
                         !.results_len = @ + 1,
                         !.found_count = IF entry.found THEN @ + 1 ELSE @ ]
  /\ entry' = NoEntry
  /\ probe' = NoProbe
  /\ last_response' = NoResponse
  /\ UNCHANGED << fs, workers, download_result, atCall, probed, fetches,
                  invocations, escaped, requests >>
  /\ UNCHANGED batchVars
  /\ UNCHANGED << lookup, ensure >>

(***************************************************************************)
(* return jsonify({...}) after the loops.                                  *)
(***************************************************************************)
api_respond ==
  /\ api.st = "loop"
  /\ ~ (api.endpoint = "cas" /\ api.download)
  /\ api.i = Len(api.cas_numbers)
  /\ api.j = Len(api.product_names)
  /\ api' = [ api EXCEPT !.st = "responded", !.status = 200 ]
  /\ UNCHANGED << fs, workers, download_result, atCall, probed, fetches,
                  invocations, last_response, escaped, probe, entry, requests >>
  /\ UNCHANGED batchVars
  /\ UNCHANGED << lookup, ensure >>

(***************************************************************************)
(* The source adapters, as functions of what the catalog replies.          *)
(* replies[k] is the reply to the k-th request the adapter may issue.      *)
(***************************************************************************)
\* requests raises RequestException (timeout, connection error)
RequestException == [ kind |-> "RequestException" ]

\* what a reply carries besides status and history: a qualifying document
\* link or row for the query ("match"), a well-formed page without one
\* ("no_match"), or a shape the parsing code does not expect ("malformed")
Bodies == { "match", "no_match", "malformed" }

CatalogResponses ==
  [ kind : { "response" }, status : { 200, 404 }, history : { 0, 1 },
    body : Bodies ]

CatalogReplies == { RequestException } \cup CatalogResponses

\* what an adapter call yields: the value returned, the replies the value
\* was derived from, the number of requests issued, and whether an exception
\* was swallowed by one of the adapter's except clauses
answer(result, used, requests_made, caught) ==
  [ result |-> result, used |-> used, requests |-> requests_made,
    caught |-> caught ]

\* status_code == 200 and len(history) == 0
accepted(r) == r.status = 200 /\ r.history = 0

\* status_code == 200
status_ok(r) == r.status = 200

\* the test an adapter applies to a response before it reads the body:
\* status and history, the status alone, or none
passes(test, r) ==
  CASE test = "status and history" -> accepted(r)
    [] test = "status" -> status_ok(r)
    [] OTHER -> TRUE

\* the parsing of the k-th reply, n requests issued so far; strict parsing
\* indexes without a test and raises on a malformed body, which the
\* adapter's "except Exception" turns into None
scrape(database, r, k, n, strict, caught) ==
  CASE r.body = "match" ->
         answer(Tuple(SourceOf[database], UrlOf[database]), { k }, n, caught)
    [] r.body = "malformed" /\ strict -> answer(NoneValue, {}, n, TRUE)
    [] OTHER -> answer(NoneValue, {}, n, caught)

\* an adapter that issues one request
one_request(database, replies, test, strict) ==
  LET r == replies[1] IN
    IF r.kind = "RequestException"
    THEN answer(NoneValue, {}, 1, TRUE)
    ELSE IF passes(test, r)
         THEN scrape(database, r, 1, 1, strict, FALSE)
         ELSE answer(NoneValue, {}, 1, FALSE)

extract_download_url_from_chemblink(replies) ==
  one_request("ChemBlink", replies, "status and history", TRUE)

extract_download_url_from_fisher(replies) ==
  one_request("Fisher", replies, "status and history", TRUE)

\* r1 = s.post(...); r1.json() is read whatever the status and the history
extract_download_url_from_chemicalsafety(replies) ==
  one_request("ChemicalSafety", replies, "none", TRUE)

\* for search_url in search_urls: a RequestException moves on to the next
\* url, a response with status 200 is searched for a link, the first link
\* found is returned
RECURSIVE search_urls_loop(_, _, _, _)
search_urls_loop(database, replies, k, caught) ==
  IF k > 3
  THEN answer(NoneValue, {}, 3, caught)
  ELSE LET r == replies[k] IN
         CASE r.kind = "RequestException" ->
                search_urls_loop(database, replies, k + 1, TRUE)
           [] r.kind = "response" /\ status_ok(r) /\ r.body = "match" ->
                scrape(database, r, k, k, FALSE, caught)
           [] OTHER -> search_urls_loop(database, replies, k + 1, caught)

extract_download_url_from_vwr(replies) ==
  search_urls_loop("VWR", replies, 1, FALSE)

extract_download_url_from_fluorochem(replies) ==
  search_urls_loop("Fluorochem", replies, 1, FALSE)
\* for url, method, params, timeout in search_approaches: the position of
\* the first reply with status 200 and no redirect (break), or 0 when the
\* loop runs to its else clause; a Timeout or RequestException moves on
RECURSIVE search_approaches_loop(_, _, _)
search_approaches_loop(replies, k, caught) ==
  IF k > 3
  THEN [ k |-> 0, caught |-> caught ]
  ELSE LET r == replies[k] IN
         CASE r.kind = "RequestException" ->
                search_approaches_loop(replies, k + 1, TRUE)
           [] r.kind = "response" /\ accepted(r) ->
                [ k |-> k, caught |-> caught ]
           [] OTHER -> search_approaches_loop(replies, k + 1, caught)

\* the TCI follow-up: file_name_res = s.post(sds_url, ...) and the file
\* name taken from its content-disposition header ("match": the header
\* names a file).  Neither status nor history of file_name_res is tested.
\* header_tested: a missing header returns None instead of raising
sds_post(k, n, f, kf, header_tested, caught) ==
  CASE f.kind = "RequestException" -> answer(NoneValue, {}, n + 1, TRUE)
    [] f.kind = "response" /\ f.body = "match" ->
         answer(Tuple(SourceOf["TCI"], UrlOf["TCI"]), { k, kf }, n + 1, caught)
    [] OTHER -> answer(NoneValue, {}, n + 1, caught \/ ~ header_tested)

extract_download_url_from_tci(replies) ==
  LET get_id == search_approaches_loop(replies, 1, FALSE) IN
    IF get_id.k = 0
    THEN answer(NoneValue, {}, 3, get_id.caught)
    ELSE LET r == replies[get_id.k] IN
           CASE r.body = "match" ->
                  sds_post(get_id.k, get_id.k, replies[4], 4, FALSE,
                           get_id.caught)
             [] r.body = "malformed" ->
                  answer(NoneValue, {}, get_id.k, TRUE)
             [] OTHER -> answer(NoneValue, {}, get_id.k, get_id.caught)

(***************************************************************************)
(* enhanced_search.py: the adapters by product name.                       *)
(***************************************************************************)
\* if r1.status_code == 200 and r1.json(): no test of the history
extract_download_url_from_chemicalsafety_by_name(replies) ==
  one_request("ChemicalSafety", replies, "status", TRUE)

extract_download_url_from_vwr_by_name(replies) ==
  one_request("VWR", replies, "status and history", TRUE)

\* every step of the parsing is tested before it is used
extract_download_url_from_fisher_by_name(replies) ==
  one_request("Fisher", replies, "status and history", FALSE)

extract_download_url_from_tci_by_name(replies) ==
  LET r == replies[1] IN
    CASE r.kind = "RequestException" -> answer(NoneValue, {}, 1, TRUE)
      [] r.kind = "response" /\ accepted(r) /\ r.body = "match" ->
           sds_post(1, 1, replies[2], 2, TRUE, FALSE)
      [] r.kind = "response" /\ accepted(r) /\ r.body = "malformed" ->
           answer(NoneValue, {}, 1, TRUE)
      [] OTHER -> answer(NoneValue, {}, 1, FALSE)

\* the search page is scanned for a CAS number ("match": one is found), and
\* the CAS adapter is called with the first one
extract_download_url_from_chemblink_by_name(replies) ==
  LET r1 == replies[1] IN
    CASE r1.kind = "RequestException" -> answer(NoneValue, {}, 1, TRUE)
      [] r1.kind = "response" /\ accepted(r1) /\ r1.body = "match" ->
           LET inner == extract_download_url_from_chemblink(<< replies[2] >>)
           IN answer(inner.result,
                     IF inner.used = {} THEN {} ELSE { 1, 2 },
                     2, inner.caught)
      [] OTHER -> answer(NoneValue, {}, 1, FALSE)

extract_download_url_from_fluorochem_by_name(replies) ==
  one_request("Fluorochem", replies, "status and history", TRUE)

\* the function a registry of search_sds_sources_all holds under a name
source_func(source_name, search_type, replies) ==
  IF search_type = "cas"
  THEN CASE source_name = "ChemBlink" ->
              extract_download_url_from_chemblink(replies)
         [] source_name = "VWR" -> extract_download_url_from_vwr(replies)
         [] source_name = "Fisher" -> extract_download_url_from_fisher(replies)
         [] source_name = "TCI" -> extract_download_url_from_tci(replies)
         [] source_name = "ChemicalSafety" ->
              extract_download_url_from_chemicalsafety(replies)
         [] OTHER -> extract_download_url_from_fluorochem(replies)
  ELSE CASE source_name = "ChemBlink" ->
              extract_download_url_from_chemblink_by_name(replies)
         [] source_name = "VWR" ->
              extract_download_url_from_vwr_by_name(replies)
         [] source_name = "Fisher" ->
              extract_download_url_from_fisher_by_name(replies)
         [] source_name = "TCI" ->
              extract_download_url_from_tci_by_name(replies)
         [] source_name = "ChemicalSafety" ->
              extract_download_url_from_chemicalsafety_by_name(replies)
         [] OTHER -> extract_download_url_from_fluorochem_by_name(replies)

\* the largest number of requests an adapter issues
requests_of(source_name, search_type) ==
  IF search_type = "cas"
  THEN CASE source_name \in { "VWR", "Fluorochem" } -> 3
         [] source_name = "TCI" -> 4
         [] OTHER -> 1
  ELSE CASE source_name \in { "TCI", "ChemBlink" } -> 2
         [] OTHER -> 1

\* an adapter of one of the registries is about to be called
adapter_begin(source_name, search_type) ==
  /\ lookup = NoLookup
  /\ source_name \in Range(sources(search_type))
  /\ lookup' = [ st |-> "pending", database |-> source_name,
                 search_type |-> search_type, replies |-> << >> ]
  /\ UNCHANGED << fs, workers, download_result, atCall, probed, fetches,
                  invocations, last_response, escaped >>
  /\ UNCHANGED batchVars
  /\ UNCHANGED apiVars
  /\ UNCHANGED ensure

\* the catalog settles what it will reply to the adapter's next request
catalog_reply(reply) ==
  /\ lookup.st = "pending"
  /\ Len(lookup.replies) < requests_of(lookup.database, lookup.search_type)
  /\ lookup' = [ lookup EXCEPT !.replies = Append(@, reply) ]
  /\ UNCHANGED << fs, workers, download_result, atCall, probed, fetches,
                  invocations, last_response, escaped >>
  /\ UNCHANGED batchVars
  /\ UNCHANGED apiVars
  /\ UNCHANGED ensure

\* result = source_func(query), and the outcome search_sds_sources_all
\* appends for it
adapter_lookup ==
  /\ lookup.st = "pending"
  /\ Len(lookup.replies) = requests_of(lookup.database, lookup.search_type)
  /\ LET a == source_func(lookup.database, lookup.search_type, lookup.replies)
     IN lookup' =
          [ st |-> "done", database |-> lookup.database,
            search_type |-> lookup.search_type, replies |-> lookup.replies,
            result |-> a.result, used |-> a.used, requests |-> a.requests,
            caught |-> a.caught,
            outcome |-> outcome(lookup.database, a.result) ]
  /\ UNCHANGED << fs, workers, download_result, atCall, probed, fetches,
                  invocations, last_response, escaped >>
  /\ UNCHANGED batchVars
  /\ UNCHANGED apiVars
  /\ UNCHANGED ensure

(***************************************************************************)
(* enhanced_search.py: the scan of the catalog's rows in the two adapters  *)
(* that match a product name against the listed names.                     *)
(***************************************************************************)
\* a JSON null where a name is expected
NoneName == << None >>

\* the names a catalog lists, the empty name included
RowNames == { << "A" >>, << "a", "b" >>, << "c" >>, << >> }

\* the document references a row may carry: an http url ending in .pdf,
\* another url, the empty string, or null
RowUrls == { "http_pdf", "http_html", "", None }

\* one row of a reply, by the two columns the adapters read
Rows == [ name : RowNames \cup { NoneName }, url : RowUrls ]

\* longest reply, in rows
MaxRows == 2

\* the replies: the rows in the catalog's own order
RowLists == UNION { [ 1 .. n -> Rows ] : n \in 0 .. MaxRows }

\* the product names the adapters are called with
SearchNames == { << "a" >>, << "A", "B" >>, << "b", "c" >> }

\* str.lower()
lower(str) ==
  [ k \in DOMAIN str |->
      CASE str[k] = "A" -> "a"
        [] str[k] = "B" -> "b"
        [] str[k] = "C" -> "c"
        [] OTHER -> str[k] ]

\* sub in str, for two strings
py_in(sub, str) ==
  \E i \in 0 .. Len(str) - Len(sub) :
    \A k \in 1 .. Len(sub) : str[i + k] = sub[k]

\* search_name in common_name or common_name in search_name
name_test(listed, product_name) ==
  \/ py_in(lower(product_name), lower(listed))
  \/ py_in(lower(listed), lower(product_name))

\* re.search(r'^http.+\.pdf$', url), for a string
is_pdf_url(url) == url = "http_pdf"

\* ChemicalSafety by name: for row in response_data['rows'], every row is
\* read; .lower() of a null name and re.search on a null url raise, and
\* the url is only examined when the name test has passed.  acc holds the
\* positions of matching_compounds, or raised
RECURSIVE matching_compounds(_, _, _, _)
matching_compounds(rows, product_name, k, acc) ==
  IF k > Len(rows)
  THEN [ raised |-> FALSE, matches |-> acc ]
  ELSE LET row == rows[k] IN
         CASE row.name = NoneName -> [ raised |-> TRUE, matches |-> acc ]
           [] row.name # NoneName /\ name_test(row.name, product_name)
                /\ row.url = None -> [ raised |-> TRUE, matches |-> acc ]
           [] row.name # NoneName /\ name_test(row.name, product_name)
                /\ row.url # None /\ is_pdf_url(row.url) ->
                matching_compounds(rows, product_name, k + 1, Append(acc, k))
           [] OTHER -> matching_compounds(rows, product_name, k + 1, acc)

\* the row ChemicalSafety by name returns (0: it returns None), and whether
\* its except clause caught an exception
chemicalsafety_rows(rows, product_name) ==
  LET scan == matching_compounds(rows, product_name, 1, << >>) IN
    [ row |-> IF ~ scan.raised /\ scan.matches # << >>
              THEN scan.matches[1] ELSE 0,
      caught |-> scan.raised ]

\* Fluorochem by name: for item in res['data'], the first item that passes
\* the name test and has a non-empty sds link is returned at once; .lower()
\* of a null name raises
RECURSIVE fluorochem_rows(_, _, _)
fluorochem_rows(rows, product_name, k) ==
  IF k > Len(rows)
  THEN [ row |-> 0, caught |-> FALSE ]
  ELSE LET item == rows[k] IN
         CASE item.name = NoneName -> [ row |-> 0, caught |-> TRUE ]
           [] item.name # NoneName /\ name_test(item.name, product_name)
                /\ item.url \notin { None, "" } ->
                [ row |-> k, caught |-> FALSE ]
           [] OTHER -> fluorochem_rows(rows, product_name, k + 1)

\* the two adapters that match by name
NameMatching == { "ChemicalSafety", "Fluorochem" }

\* the scan of one adapter
rows_scan(database, rows, product_name) ==
  IF database = "ChemicalSafety"
  THEN chemicalsafety_rows(rows, product_name)
  ELSE fluorochem_rows(rows, product_name, 1)

\* what the rows amount to as the body of a reply
rows_body(scan) ==
  CASE scan.caught -> "malformed"
    [] ~ scan.caught /\ scan.row > 0 -> "match"
    [] OTHER -> "no_match"

\* a name-matching adapter is called and the catalog answers 200 with rows
name_match(database, product_name, rows) ==
  /\ lookup = NoLookup
  /\ LET scan == rows_scan(database, rows, product_name) IN
       lookup' = [ st |-> "matched", database |-> database,
                   query |-> product_name, rows |-> rows,
                   row |-> scan.row, caught |-> scan.caught,
                   body |-> rows_body(scan) ]
  /\ UNCHANGED << fs, workers, download_result, atCall, probed, fetches,
                  invocations, last_response, escaped, ensure >>
  /\ UNCHANGED batchVars
  /\ UNCHANGED apiVars

MatchNext ==
  \E database \in NameMatching, product_name \in SearchNames,
     rows \in RowLists : name_match(database, product_name, rows)

MatchSpec == Init /\ [][MatchNext]_vars

(***************************************************************************)
(* app.py: search_sds_sources_all and search_sds_sources called directly,  *)
(* with any search_type.                                                   *)
(***************************************************************************)
\* the search_type arguments tried: the two registries and two other strings
SearchTypes == { "cas", "product", "name", "CAS" }

\* the queries tried
Queries == { << "1" >>, << "a", " ", "b" >> }

\* search_sds_sources: the first outcome with status success as a
\* (source, url) tuple, or None
search_sds_sources(query, search_type, answers) ==
  LET all_results == search_sds_sources_all(query, search_type, answers).results
      successes == SelectSeq(all_results, LAMBDA x : x.status = "success")
  IN IF successes # << >>
     THEN Tuple(successes[1].source, successes[1].url)
     ELSE NoneValue

\* a caller invokes search_sds_sources_all(query, search_type)
search_sds_sources_all_call(query, search_type, answers) ==
  /\ probe = NoProbe
  /\ probe' = probe_record(query, search_type, answers)
  /\ UNCHANGED << fs, workers, download_result, atCall, probed, fetches,
                  invocations, last_response, escaped, api, entry, requests >>
  /\ UNCHANGED batchVars
  /\ UNCHANGED << lookup, ensure >>

\* a caller invokes search_sds_sources(query, search_type)
search_sds_sources_call(query, search_type, answers) ==
  /\ probe = NoProbe
  /\ probe' = [ first |-> search_sds_sources(query, search_type, answers) ]
                 @@ probe_record(query, search_type, answers)
  /\ UNCHANGED << fs, workers, download_result, atCall, probed, fetches,
                  invocations, last_response, escaped, api, entry, requests >>
  /\ UNCHANGED batchVars
  /\ UNCHANGED << lookup, ensure >>

SearchNext ==
  \/ \E q \in Queries, t \in SearchTypes, answers \in Answers :
       search_sds_sources_all_call(q, t, answers)
  \/ \E q \in Queries, t \in SearchTypes, answers \in Answers :
       search_sds_sources_call(q, t, answers)

SearchSpec == Init /\ [][SearchNext]_vars

(***************************************************************************)
(* Creation of the download directory.                                     *)
(*   find_sds:           os.makedirs(download_path, exist_ok=True)         *)
(*   search_by_product,                                                    *)
(*   search_mixed:       download_path.mkdir(exist_ok=True)                *)
(* Both library functions issue the mkdir system call and, when it fails   *)
(* because the name exists, re-raise unless exist_ok is set and the name   *)
(* is a directory.                                                         *)
(***************************************************************************)
\* the functions that create the download directory
EnsuringFunctions == { "find_sds", "search_by_product", "search_mixed" }

\* variant: the directory is created without exist_ok
exist_ok_unset(func) == FALSE

\* the exist_ok argument each function passes
exist_ok(func) == func \in EnsuringFunctions

\* a function reaches its mkdir / makedirs call
ensure_call(c, func) ==
  /\ ensure.callers[c].st = "outside"
  /\ ensure.callers[c].n < MaxEnsures
  /\ ensure' = [ ensure EXCEPT !.callers[c] =
                   [ st |-> "mkdir", func |-> func, n |-> @.n,
                     lost |-> FALSE ] ]
  /\ UNCHANGED << fs, workers, download_result, atCall, probed, fetches,
                  invocations, last_response, escaped, lookup >>
  /\ UNCHANGED batchVars
  /\ UNCHANGED apiVars

\* the mkdir system call: it creates the directory, or fails with
\* FileExistsError, which is re-raised when exist_ok is not set
ensure_mkdir(c) ==
  /\ ensure.callers[c].st = "mkdir"
  /\ ensure' =
       IF ~ ensure.dir
       THEN [ ensure EXCEPT !.dir = TRUE, !.callers[c].st = "made" ]
       ELSE [ ensure EXCEPT
                !.callers[c].lost = TRUE,
                !.callers[c].st =
                  IF exist_ok(ensure.callers[c].func) THEN "isdir"
                  ELSE "raised" ]
  /\ UNCHANGED << fs, workers, download_result, atCall, probed, fetches,
                  invocations, last_response, escaped, lookup >>
  /\ UNCHANGED batchVars
  /\ UNCHANGED apiVars

\* the except clause: if not exist_ok or not isdir(name): raise
ensure_isdir(c) ==
  /\ ensure.callers[c].st = "isdir"
  /\ ensure' = [ ensure EXCEPT !.callers[c].st =
                   IF ensure.dir THEN "made" ELSE "raised" ]
  /\ UNCHANGED << fs, workers, download_result, atCall, probed, fetches,
                  invocations, last_response, escaped, lookup >>
  /\ UNCHANGED batchVars
  /\ UNCHANGED apiVars

\* mkdir / makedirs returns to the function
ensure_return(c) ==
  /\ ensure.callers[c].st = "made"
  /\ ensure' = [ ensure EXCEPT !.callers[c] = Outside(@.n + 1) ]
  /\ UNCHANGED << fs, workers, download_result, atCall, probed, fetches,
                  invocations, last_response, escaped, lookup >>
  /\ UNCHANGED batchVars
  /\ UNCHANGED apiVars

MkdirNext ==
  \/ \E c \in Callers, func \in EnsuringFunctions : ensure_call(c, func)
  \/ \E c \in Callers : ensure_mkdir(c)
  \/ \E c \in Callers : ensure_isdir(c)
  \/ \E c \in Callers : ensure_return(c)

MkdirSpec == Init /\ [][MkdirNext]_vars

AdapterNext ==
  \/ \E t \in { "cas", "product" } :
       \E d \in Range(sources(t)) : adapter_begin(d, t)
  \/ \E reply \in CatalogReplies : catalog_reply(reply)
  \/ adapter_lookup

AdapterSpec == Init /\ [][AdapterNext]_vars

ApiNext ==
  \/ \E r \in ApiRequests : api_begin(r)
  \/ search_by_cas_item
  \/ search_by_cas_download
  \/ search_by_product_item
  \/ search_mixed_cas_probe
  \/ \E w \in Workers : download_sds_exists(w)
  \/ \E w \in Workers : download_sds_adapter(w)
  \/ \E w \in Workers : download_sds_get(w)
  \/ search_mixed_cas_return
  \/ search_mixed_product_item
  \/ append_result
  \/ api_respond

ApiSpec == Init /\ [][ApiNext]_vars

Next ==
  \/ \E list \in CasLists, size \in 1 .. MaxPool,
        br \in { "pool", "sequential" } : find_sds_begin(list, size, br)
  \/ \E list \in { << >> } : find_sds_empty(list)
  \/ \E w \in Workers, c \in CasIds : download_sds_enter(w, c)
  \/ \E w \in Workers : download_sds_exists(w)
  \/ \E w \in Workers : download_sds_adapter(w)
  \/ \E w \in Workers : download_sds_get(w)
  \/ find_sds_summary

Spec == Init /\ [][Next]_vars

\* the statements download_sds executes in worker w, each of which ends:
\* every requests call carries a timeout (find_sds.py:197, 255, 330, 436,
\* 528, 700, 818, 820, 892) and the loops run over fixed lists
download_sds_step(w) ==
  \/ \E c \in CasIds : download_sds_enter(w, c)
  \/ download_sds_exists(w)
  \/ download_sds_adapter(w)
  \/ download_sds_get(w)

\* find_sds under the scheduling of the interpreter and of Pool.map: a
\* worker that can execute its next statement does so, and the finally
\* block runs once the loop or the pool is through
LiveNext ==
  \/ \E list \in CasLists, size \in 1 .. MaxPool,
        br \in { "pool", "sequential" } :
       runs < MaxLiveRuns /\ find_sds_begin(list, size, br)
  \/ \E list \in { << >> } : runs < MaxLiveRuns /\ find_sds_empty(list)
  \/ \E w \in Workers : download_sds_step(w)
  \/ find_sds_summary

LiveSpec ==
  /\ Init
  /\ [][LiveNext]_vars
  /\ \A w \in Workers : WF_vars(download_sds_step(w))
  /\ WF_vars(find_sds_summary)

(***************************************************************************)
(* Claims about find_sds and download_sds, checked under Spec.             *)
(***************************************************************************)

\* C1: after find_sds finishes on a non-empty list, missing_sds and
\* updated_sds are disjoint and their union is set(cas_list).
C1_SummaryPartitions ==
  pc = "done" =>
    /\ missing_sds \cap updated_sds = {}
    /\ missing_sds \cup updated_sds = Range(cas_list)

\* C2: every call of download_sds returns a triple (cas_nr, downloaded,
\* source); a call that reports downloaded = True leaves a file at the path,
\* so a failed fetch is reported with downloaded = False.
C2_AlwaysReturnsTriple ==
  \A c \in CasIds :
    download_result[c] # NotCalled =>
      /\ download_result[c].kind = "triple"
      /\ download_result[c].cas = c
      /\ download_result[c].downloaded => exists(fs, file_name(c))

\* C3: when the file exists on entry, download_sds returns downloaded = True
\* with no source, invokes no adapter, issues no GET and leaves the file as
\* it was.
C3_ExistingFileIsSkipped ==
  \A c \in CasIds :
    atCall[c] \notin { NoSnapshot, Absent } =>
      /\ ~ probed[c]
      /\ fetches[c] = 0
      /\ fs[file_name(c)] = atCall[c]
      /\ \A w \in Workers :
           (workers[w].st # "idle" /\ workers[w].cas = c) =>
             workers[w].st = "exists"
      /\ download_result[c] \in { NotCalled, Triple(c, TRUE, None) }

\* C3 witness: a call found its file (here with a body) and returned True.
C3_Witness ==
  \E c \in CasIds :
    /\ atCall[c] \in Contents
    /\ download_result[c] = Triple(c, TRUE, None)

\* the order of the adapters as the claim states it
C8_Order ==
  << "ChemBlink", "VWR", "Fisher", "TCI", "ChemicalSafety", "Fluorochem" >>

\* C8: inside download_sds the adapters are tried in the order ChemBlink,
\* VWR, Fisher, TCI, ChemicalSafety, Fluorochem; every adapter tried before
\* the last one returned nothing, and once an adapter has returned a result
\* it is the last one tried and its result is the one fetched.
C8_ChainOrderAndStop ==
  \A w \in Workers :
    workers[w].st \in { "chain", "get" } =>
      LET n == Len(workers[w].calls) IN
        /\ n <= Len(C8_Order)
        /\ workers[w].calls = SubSeq(C8_Order, 1, n)
        /\ Len(workers[w].answers) = n
        /\ \A j \in 1 .. n - 1 : workers[w].answers[j] = "None"
        /\ workers[w].st = "chain" =>
             \A j \in 1 .. n : workers[w].answers[j] = "None"
        /\ workers[w].st = "get" =>
             /\ n >= 1
             /\ workers[w].answers[n] = "tuple"
             /\ workers[w].full_url # None

\* C8 witness: the third adapter was the first to return a result.
C8_Witness ==
  \E w \in Workers :
    /\ workers[w].st = "get"
    /\ workers[w].calls = << "ChemBlink", "VWR", "Fisher" >>

\* C9: in a second run with the same arguments, every identifier completed
\* in the first run is completed again, and no adapter is invoked and no
\* GET issued for an identifier whose file existed when the run began.
C9_SecondRunIdempotent ==
  /\ (runs = 2 /\ pc = "done") => prev_updated \subseteq updated_sds
  /\ \A c \in CasIds :
       exists(fs_at_start, file_name(c)) =>
         /\ ~ probed[c]
         /\ fetches[c] = 0

\* C9 witness: a second run finished, with an identifier completed in the
\* first run and one the first run had left missing.
C9_Witness ==
  /\ runs = 2
  /\ pc = "done"
  /\ prev_updated # {}
  /\ prev_updated # Range(cas_list)
  /\ \E c \in prev_updated : fs_at_start[file_name(c)] \in Contents

\* C10: with pool_size = k, at no moment are more than k executions of
\* download_sds in progress; the sequential branch runs one at a time.
C10_AtMostPoolSizeInProgress ==
  /\ Cardinality(InProgress) <= pool_size
  /\ branch = "sequential" => Cardinality(InProgress) <= 1

\* C10 witness: more identifiers than workers, and every worker busy.
C10_Witness ==
  /\ branch = "pool"
  /\ pool_size = 2
  /\ Cardinality(Range(cas_list)) > pool_size
  /\ Cardinality(InProgress) = pool_size

C12_Failed(c) ==
  \/ download_result[c] = NotCalled
  \/ download_result[c].kind = "None"
  \/ download_result[c].kind = "triple" /\ ~ download_result[c].downloaded

\* C12: when the processing of one identifier has failed, every other
\* identifier of the batch has still been handed to download_sds and appears
\* in the summary, in the pool branch and in the sequential branch.
C12_FailureStaysWithItsIdentifier ==
  pc = "done" =>
    \A c \in Range(cas_list) :
      C12_Failed(c) =>
        \A d \in Range(cas_list) \ { c } :
          /\ invocations[d] = 1
          /\ d \in missing_sds \cup updated_sds

\* C18: the document is written atomically: no partially written file is
\* ever left at a target path, and a download_sds call never reports
\* downloaded = True while the file at its path is a partial one.
C18_NoPartialFileIsLeft ==
  /\ \A p \in Paths : fs[p] # Partial
  /\ \A c \in CasIds :
       (download_result[c].kind = "triple" /\ download_result[c].downloaded)
         => fs[file_name(c)] \in Contents

(***************************************************************************)
(* Claims about the REST wrapper, checked under ApiSpec.                   *)
(***************************************************************************)

\* C4: in every download path a file that exists at the target path is
\* never overwritten: within one request directory, once a path holds a
\* file no later step changes its content.
C4_NeverOverwritten ==
  [][ requests' = requests =>
        \A p \in Paths : exists(fs, p) => fs'[p] = fs[p] ]_vars

\* the registries as the claim states them
C5_Registry ==
  [ cas |-> << "ChemBlink", "VWR", "Fisher", "TCI", "ChemicalSafety",
               "Fluorochem" >>,
    product |-> << "ChemicalSafety", "VWR", "Fisher", "TCI", "ChemBlink",
                   "Fluorochem" >> ]

\* C5: for search_type cas or product, search_sds_sources_all invokes every
\* adapter of the registry exactly once, whatever the earlier outcomes, and
\* returns six outcomes whose database fields are in registry order.
C5_EveryAdapterOnce ==
  probe # NoProbe =>
    /\ probe.search_type \in { "cas", "product" }
    /\ probe.calls = C5_Registry[probe.search_type]
    /\ Len(probe.results) = 6
    /\ \A k \in 1 .. 6 :
         probe.results[k].database = C5_Registry[probe.search_type][k]

\* C5 witness: the first adapter succeeded and a later one did not.
C5_Witness ==
  /\ probe # NoProbe
  /\ probe.answers[1] = "tuple"
  /\ probe.answers[4] = "None"
  /\ probe.answers[6] = "tuple"
  /\ Len(probe.results) = 6

\* the answers with every exception replaced by an empty answer
C6_WithoutRaise(answers) ==
  [ k \in DOMAIN answers |->
      IF answers[k] = "Raise" THEN "None" ELSE answers[k] ]

\* C6: when an adapter raises, the list still has an outcome for every
\* adapter, the raising adapter's outcome has status error with an error
\* detail, and every other outcome is what it is when no adapter raises.
C6_RaiseIsIsolated ==
  (probe # NoProbe /\ \E k \in 1 .. 6 : probe.answers[k] = "Raise") =>
    /\ Len(probe.results) = 6
    /\ \A k \in 1 .. 6 :
         IF probe.answers[k] = "Raise"
         THEN /\ probe.results[k].status = "error"
              /\ "error" \in DOMAIN probe.results[k]
         ELSE /\ "error" \notin DOMAIN probe.results[k]
              /\ probe.results[k] =
                   search_sds_sources_all(probe.query, probe.search_type,
                     C6_WithoutRaise(probe.answers)).results[k]
              /\ probe.results[k].status =
                   IF probe.answers[k] = "tuple" THEN "success"
                   ELSE "not_found"

\* C6 witness: the second adapter raised, the third returned a result.
C6_Witness ==
  /\ probe # NoProbe
  /\ probe.answers[2] = "Raise"
  /\ probe.answers[3] = "tuple"
  /\ probe.answers[1] = "None"
  /\ Len(probe.results) = 6

\* the positions of the successful outcomes
C7_Successes(all_sources) ==
  { k \in 1 .. Len(all_sources) : all_sources[k].status = "success" }

\* C7: in an entry of a link-only search, sources is the subsequence of
\* all_sources with status success in the same order, found is true iff
\* sources is non-empty, primary_source / primary_url are those of the first
\* success when found, and None otherwise.
C7_EntryConsistent ==
  (entry # NoEntry /\ ~ api.download) =>
    LET pos == C7_Successes(entry.all_sources) IN
      /\ Len(entry.sources) = Cardinality(pos)
      /\ \A k \in pos :
           entry.sources[Cardinality({ m \in pos : m <= k })]
             = entry.all_sources[k]
      /\ entry.found <=> entry.sources # << >>
      /\ entry.found =>
           /\ entry.primary_source = entry.sources[1].source
           /\ entry.primary_url = entry.sources[1].url
           /\ \E k \in pos :
                /\ \A m \in pos : k <= m
                /\ entry.primary_url = entry.all_sources[k].url
      /\ ~ entry.found =>
           /\ entry.primary_source = None
           /\ entry.primary_url = None

\* C7 witness: two successes, the first of them at the third adapter.
C7_Witness ==
  /\ entry # NoEntry
  /\ ~ api.download
  /\ C7_Successes(entry.all_sources) = { 3, 5 }
  /\ entry.primary_url = entry.all_sources[3].url

\* C13: a request over several identifiers never fails as a whole because
\* of one identifier: whenever it is answered, the answer is the structured
\* result list (or the rejection of a request without identifiers), never
\* the error response of the handler's except clause.
C13_NeverFailsAsAWhole ==
  api.st = "responded" => api.status \in { 200, 400 }

C17_Clean(response) ==
  /\ response.kind = "response"
  /\ response.status = 200
  /\ response.history = 0

\* C17: in every download path a step writes a document file, and a step
\* builds a product entry with downloaded = True, only if the response to
\* the step's GET had a success status and an empty redirect history.
C17_WrittenOnlyFromCleanResponse ==
  [][ /\ (\E p \in Paths : fs'[p] # fs[p] /\ fs'[p] # Absent)
           => C17_Clean(last_response')
      /\ (entry = NoEntry /\ entry' # NoEntry /\ api.st = "loop"
            /\ "downloaded" \in DOMAIN entry'
            /\ entry'.downloaded = "True")
           => C17_Clean(last_response') ]_vars

\* the target file of every identifier of the request being served
C19_Targets ==
  { [ identifier |-> api.cas_numbers[k],
      path |-> file_name(api.cas_numbers[k]) ] :
      k \in 1 .. Len(api.cas_numbers) } \cup
  { [ identifier |-> api.product_names[k],
      path |-> product_file_name(api.product_names[k]) ] :
      k \in 1 .. Len(api.product_names) }

\* C19: within the directory of one request, two distinct identifiers (CAS
\* numbers, or product names after the replacement of space and slash) never
\* have the same target file.
C19_FileNamesInjective ==
  (api.st \in { "loop", "built", "downloading" } /\ api.download) =>
    \A x, y \in C19_Targets :
      x.identifier # y.identifier => x.path # y.path

(***************************************************************************)
(* Claims about the source adapters, checked under AdapterSpec.            *)
(***************************************************************************)

\* C14: an adapter reports no match whenever the catalog response it
\* receives has a non-empty redirect history: a (source, url) pair is never
\* derived from a response that was reached through a redirect.
C14_RedirectedIsNoMatch ==
  (lookup.st = "done" /\ lookup.result.kind = "tuple") =>
    \A k \in lookup.used : lookup.replies[k].history = 0

\* C15: when the lookup of an adapter suffers a network failure, a timeout
\* or a response it cannot parse, the outcome recorded for the adapter has
\* status error with an error detail, not not_found.
C15_FailureIsRecordedAsError ==
  (lookup.st = "done" /\ lookup.caught) =>
    /\ lookup.outcome.status = "error"
    /\ "error" \in DOMAIN lookup.outcome

\* the request being served lacks its identifier field
C20_WithoutIdentifierField ==
  CASE api.endpoint = "cas" -> "cas_numbers" \notin api.keys
    [] api.endpoint = "product" -> "product_names" \notin api.keys
    [] OTHER -> /\ "cas_numbers" \notin api.keys
                /\ "product_names" \notin api.keys

C21_LinkOnlyLeavesFilesUntouched ==
  (api.st # "idle" /\ ~ api.download) =>
    /\ ~ api.dir_made
    /\ \A p \in Paths : fs[p] = Absent
    /\ last_response = NoResponse
    /\ workers[1].st = "idle"
    /\ \A c \in CasIds : fetches[c] = 0 /\ invocations[c] = 0

\* C21 witness: a link-only product lookup found sources and built its entry.
C21_Witness ==
  /\ api.st = "built"
  /\ ~ api.download
  /\ api.endpoint = "product"
  /\ entry.found
  /\ probe # NoProbe

\* the request being served is /search/cas with download = true and an
\* empty list of CAS numbers
C29_EmptyBulkDownload ==
  /\ api.st # "idle"
  /\ api.endpoint = "cas"
  /\ api.download
  /\ "cas_numbers" \in api.keys
  /\ api.cas_numbers = << >>

\* C29: find_sds called with an empty list returns normally and raises
\* nothing to its caller, and /search/cas with an empty list and download =
\* true is answered with a structured response.
C29_EmptyListReturnsNormally ==
  /\ pc # "exited"
  /\ C29_EmptyBulkDownload =>
       /\ api.st \in { "loop", "responded" }
       /\ api.st = "responded" => api.status = 200

\* the position of the first success of an exhaustive run, 0 when none
C24_FirstSuccess(results) ==
  IF \E k \in 1 .. Len(results) : results[k].status = "success"
  THEN CHOOSE k \in 1 .. Len(results) :
         /\ results[k].status = "success"
         /\ \A m \in 1 .. k - 1 : results[m].status # "success"
  ELSE 0

\* the adapters are deterministic: in this step of the or-chain, and in the
\* steps before it, each adapter does for download_sds what it did in the
\* exhaustive run on the same identifier
C24_Deterministic ==
  LET i == workers[1].idx IN
    /\ \A j \in 1 .. i - 1 : probe.answers[j] = "None"
    /\ CASE workers'[1].st = "chain" -> probe.answers[i] = "None"
         [] workers'[1].st = "get" -> probe.answers[i] = "tuple"
         [] OTHER -> \/ probe.answers[i] = "Raise"
                     \/ i = NumAdapters /\ probe.answers[i] = "None"

\* the or-chain goes the way of the exhaustive run: it moves on while the
\* first success lies ahead, stops at the first success with its source and
\* url after invoking the registry up to it, and ends empty-handed only
\* when the exhaustive run has no success
C24_SameChoice ==
  LET i == workers[1].idx
      first == C24_FirstSuccess(probe.results)
  IN
    CASE workers'[1].st = "chain" -> first = 0 \/ first > i
      [] workers'[1].st = "get" ->
           /\ first = i
           /\ workers'[1].full_url = probe.results[first].url
           /\ workers'[1].sds_source = probe.results[first].source
           /\ workers'[1].calls = SubSeq(sources("cas"), 1, first)
      [] OTHER -> first = 0

C28_WrittenFromPrimary ==
  [][ (api.st = "downloading" /\ workers[1].st = "get"
         /\ download_result'[workers[1].cas].kind = "triple"
         /\ download_result'[workers[1].cas].downloaded)
        => /\ workers[1].full_url = entry_fields(probe.results).primary_url
           /\ workers[1].sds_source
                = entry_fields(probe.results).primary_source ]_vars

(***************************************************************************)
(* Claims about the creation of the download directory, checked under      *)
(* MkdirSpec.                                                              *)
(***************************************************************************)

\* C23: when two workers or two overlapping calls ensure the same download
\* directory, none of them fails because the other created it first, and
\* the directory exists once a call has returned.
C23_CreationToleratesRace ==
  \A c \in Callers :
    /\ ensure.callers[c].st # "raised"
    /\ (ensure.callers[c].st = "made" \/ ensure.callers[c].n > 0)
         => ensure.dir

\* C23 witness: two calls overlapped, find_sds lost the race against
\* search_mixed, and both have come through.
C23_Witness ==
  /\ ensure.dir
  /\ ensure.callers[1] =
       [ st |-> "made", func |-> "find_sds", n |-> 0, lost |-> TRUE ]
  /\ ensure.callers[2].st = "made"
  /\ ensure.callers[2].func = "search_mixed"
  /\ ~ ensure.callers[2].lost

\* C25: an adapter reports no match whenever the catalog answers with a
\* status other than success: a (source, url) pair is never derived from the
\* body of a non-2xx response.
C25_NonSuccessIsNoMatch ==
  (lookup.st = "done" /\ lookup.result.kind = "tuple") =>
    \A k \in lookup.used : lookup.replies[k].status = 200

(***************************************************************************)
(* Claims about direct calls of the search functions, checked under        *)
(* SearchSpec.                                                             *)
(***************************************************************************)

\* what the call returned reads like a lookup that found no source: no
\* outcome with status success, and None from search_sds_sources
C22_ReadsAsNothingFound ==
  /\ probe.kind = "probe"
  /\ ~ entry_fields(probe.results).found
  /\ "first" \in DOMAIN probe => probe.first = NoneValue

\* C22: for a search_type other than cas and product the call reports a
\* failure and does not return what reads as "no source found"; for cas and
\* product it never fails and returns one outcome per adapter.
C22_InvalidKindIsReported ==
  probe # NoProbe =>
    IF probe.search_type \in { "cas", "product" }
    THEN /\ probe.kind = "probe"
         /\ Len(probe.results) = NumAdapters
    ELSE ~ C22_ReadsAsNothingFound

(***************************************************************************)
(* Claims about the matching of product names, checked under MatchSpec.    *)
(***************************************************************************)

\* the row carries a document url the adapter accepts
C26_HasUrl(database, row) ==
  IF database = "ChemicalSafety"
  THEN row.url = "http_pdf"
  ELSE row.url \in { "http_pdf", "http_html" }

\* two letters are the same up to case
C26_SameLetter(x, y) ==
  \E pair \in { { "a", "A" }, { "b", "B" }, { "c", "C" } } :
    x \in pair /\ y \in pair

\* part occurs in whole, letters compared without regard to case
C26_Contains(whole, part) ==
  \E i \in 0 .. Len(whole) - Len(part) :
    \A k \in 1 .. Len(part) : C26_SameLetter(whole[i + k], part[k])

\* the listed name contains the query or is contained in it
C26_NameMatches(listed, query) ==
  C26_Contains(listed, query) \/ C26_Contains(query, listed)

\* the row has a listed name that matches the query and carries a document
\* url
C26_Qualifies(database, row, query) ==
  /\ row.name # NoneName
  /\ C26_NameMatches(row.name, query)
  /\ C26_HasUrl(database, row)

\* the position of the first qualifying row in the catalog's order, 0 when
\* no row qualifies
C26_FirstQualifying(database, rows, query) ==
  IF \E k \in 1 .. Len(rows) : C26_Qualifies(database, rows[k], query)
  THEN CHOOSE k \in 1 .. Len(rows) :
         /\ C26_Qualifies(database, rows[k], query)
         /\ \A m \in 1 .. k - 1 : ~ C26_Qualifies(database, rows[m], query)
  ELSE 0

\* C26 as stated: a name-matching adapter returns the first row, in the
\* catalog's order, whose listed name contains the query or is contained in
\* it (case-insensitive) and that carries a qualifying document url, and no
\* other row.
C26_ReturnsFirstQualifying ==
  lookup.st = "matched" =>
    lookup.row = C26_FirstQualifying(lookup.database, lookup.rows,
                                     lookup.query)

====
